---- MODULE Spec2Model ----
(***************************************************************************)
(* Key-material model and wire codec of the builtin DDS Security           *)
(* AES-GCM/GMAC cryptographic plugin (RustDDS).                            *)
(*                                                                         *)
(* Every conversion of the source is a pure function; each is an operator  *)
(* here, computed the way the code computes it, byte for byte.  The state  *)
(* machine is a caller that invokes one operation at a time: `op` names    *)
(* the operation last invoked, `inp` is its argument, `out` its result     *)
(* and `hist` the arguments of the earlier calls of the same chain (a      *)
(* chained call feeds the previous result into the next operation).        *)
(***************************************************************************)
EXTENDS Integers, Sequences, FiniteSets, TLC

VARIABLES op, inp, out, hist

vars == <<op, inp, out, hist>>

(***************************************************************************)
(* Bounds of the model.                                                    *)
(***************************************************************************)
\* master_salt inputs are up to MaxSaltOnWire + MaxOversize bytes long
MaxOversize == 1
\* from_wire_list is given lists of up to MaxListLen key materials
MaxListLen == 3
\* tokens carry up to MaxBinaryProps binary properties
MaxBinaryProps == 2
\* plugin_crypto_header_extra is up to MaxExtraLen bytes long
MaxExtraLen == 13
\* each byte of a CryptoTransformKind input is in 0..MaxKindByte, or 255
MaxKindByte == 5
\* the data of a CryptoContent is up to MaxContentLen bytes long
MaxContentLen == 8
\* the data of a CryptoFooter is up to MaxFooterLen bytes long
MaxFooterLen == 40

(***************************************************************************)
(* Results.  SecurityError carries only a message; `err` names the cause   *)
(* the message states and `info` the value the message reports.  A panic   *)
(* (index out of range, todo!()) unwinds the caller: it is no result.      *)
(***************************************************************************)
Ok(v) == [tag |-> "Ok", val |-> v]

Err(e, i) == [tag |-> "Err", err |-> e, info |-> i]

Panic(m) == [tag |-> "Panic", msg |-> m]

NoValue == [tag |-> "None"]

\* r.and_then(F), and the `?` operator: r is evaluated once; an Ok value is
\* handed to F, anything else is the result
and_then(r, F(_)) ==
  CHOOSE y \in { IF x.tag = "Ok" THEN F(x.val) ELSE x : x \in {r} } : TRUE

\* r.map(F)
map(r, F(_)) == and_then(r, LAMBDA v : Ok(F(v)))

(***************************************************************************)
(* Bytes.                                                                  *)
(***************************************************************************)
Fill(n, b) == [i \in 1..n |-> b]

Ramp(n, b) == [i \in 1..n |-> (b + i) % 256]

\* big-endian bytes of a u32
U32BE(n) ==
  << (n \div 16777216) % 256, (n \div 65536) % 256, (n \div 256) % 256, n % 256 >>

\* the u32 whose big-endian bytes are b[p+1..p+4]
FromU32BE(b, p) ==
  b[p + 1] * 16777216 + b[p + 2] * 65536 + b[p + 3] * 256 + b[p + 4]

(***************************************************************************)
(* Transformation kinds and their 4-byte codes.                            *)
(***************************************************************************)
BuiltinCryptoTransformationKind ==
  {"NONE", "AES128_GMAC", "AES128_GCM", "AES256_GMAC", "AES256_GCM"}

\* a mutant: AES128_GCM and AES256_GMAC decode swapped
BuiltinCryptoTransformationKind_try_from_swapped(value) ==
  IF value = <<0, 0, 0, 0>> THEN Ok("NONE")
  ELSE IF value = <<0, 0, 0, 1>> THEN Ok("AES128_GMAC")
  ELSE IF value = <<0, 0, 0, 2>> THEN Ok("AES256_GMAC")
  ELSE IF value = <<0, 0, 0, 3>> THEN Ok("AES128_GCM")
  ELSE IF value = <<0, 0, 0, 4>> THEN Ok("AES256_GCM")
  ELSE Err("InvalidTransformationKind", value)

\* TryFrom<CryptoTransformKind> for BuiltinCryptoTransformationKind
BuiltinCryptoTransformationKind_try_from(value) ==
  IF value = <<0, 0, 0, 0>> THEN Ok("NONE")
  ELSE IF value = <<0, 0, 0, 1>> THEN Ok("AES128_GMAC")
  ELSE IF value = <<0, 0, 0, 2>> THEN Ok("AES128_GCM")
  ELSE IF value = <<0, 0, 0, 3>> THEN Ok("AES256_GMAC")
  ELSE IF value = <<0, 0, 0, 4>> THEN Ok("AES256_GCM")
  ELSE Err("InvalidTransformationKind", value)

\* From<BuiltinCryptoTransformationKind> for CryptoTransformKind
CryptoTransformKind_from(builtin) ==
  CASE builtin = "NONE" -> <<0, 0, 0, 0>>
    [] builtin = "AES128_GMAC" -> <<0, 0, 0, 1>>
    [] builtin = "AES128_GCM" -> <<0, 0, 0, 2>>
    [] builtin = "AES256_GMAC" -> <<0, 0, 0, 3>>
    [] builtin = "AES256_GCM" -> <<0, 0, 0, 4>>

(***************************************************************************)
(* Key lengths and keys (builtin_key, which key_material.rs imports).      *)
(***************************************************************************)
\* KeyLength::try_from(kind): the key length a kind requires
KeyLength_try_from(kind) ==
  Ok(CASE kind = "NONE" -> 0
       [] kind \in {"AES128_GMAC", "AES128_GCM"} -> 16
       [] kind \in {"AES256_GMAC", "AES256_GCM"} -> 32)

\* BuiltinKey::from_bytes(key_len, bytes)
BuiltinKey_from_bytes(key_len, bytes) ==
  IF Len(bytes) = key_len THEN Ok(bytes)
  ELSE Err("KeyLengthMismatch", Len(bytes))

\* BuiltinKey::as_bytes
BuiltinKey_as_bytes(key) == key

\* BuiltinKey::ZERO: the all-zero AES256 key
BuiltinKey_ZERO == Fill(32, 0)

(***************************************************************************)
(* CDR, big-endian (serialization::cdr_serializer, CdrDeserializer).       *)
(* A u32 is aligned to 4 bytes from the start of the stream; a sequence    *)
(* is its u32 length followed by its elements; a [u8; 4] is 4 bytes.       *)
(***************************************************************************)
Pad4(n) == (4 - (n % 4)) % 4

CdrWriteU32(buf, n) == buf \o Fill(Pad4(Len(buf)), 0) \o U32BE(n)

CdrWriteOctets(buf, bytes) == CdrWriteU32(buf, Len(bytes)) \o bytes

\* a read returns Ok([val, pos]), pos counting the bytes consumed so far, or
\* the error of a buffer that ends too early
CdrReadArray4(b, pos) ==
  IF pos + 4 > Len(b) THEN Err("DeserializationError", pos)
  ELSE Ok([val |-> SubSeq(b, pos + 1, pos + 4), pos |-> pos + 4])

CdrReadU32(b, pos) ==
  IF pos + Pad4(pos) + 4 > Len(b) THEN Err("DeserializationError", pos)
  ELSE Ok([val |-> FromU32BE(b, pos + Pad4(pos)), pos |-> pos + Pad4(pos) + 4])

CdrReadOctets(b, pos) ==
  and_then(CdrReadU32(b, pos), LAMBDA n :
    IF n.pos + n.val > Len(b) THEN Err("DeserializationError", n.pos)
    ELSE Ok([val |-> SubSeq(b, n.pos + 1, n.pos + n.val),
             pos |-> n.pos + n.val]))

(***************************************************************************)
(* Serializable_KeyMaterial_AES_GCM_GMAC: the wire structure.              *)
(***************************************************************************)
SerializableKeyMaterial(kind, salt, sid, skey, rid, rkey) ==
  [transformation_kind |-> kind, master_salt |-> salt, sender_key_id |-> sid,
   master_sender_key |-> skey, receiver_specific_key_id |-> rid,
   master_receiver_specific_key |-> rkey]

\* to_bytes::<Serializable_KeyMaterial_AES_GCM_GMAC, BigEndian>
Serializable_to_bytes(s) ==
  LET b1 == s.transformation_kind
      b2 == CdrWriteOctets(b1, s.master_salt)
      b3 == CdrWriteU32(b2, s.sender_key_id)
      b4 == CdrWriteOctets(b3, s.master_sender_key)
      b5 == CdrWriteU32(b4, s.receiver_specific_key_id)
  IN CdrWriteOctets(b5, s.master_receiver_specific_key)

\* Serializable_KeyMaterial_AES_GCM_GMAC::deserialize on a big-endian reader:
\* the fields in their order; bytes after the last field are not read
Serializable_deserialize(b) ==
  and_then(CdrReadArray4(b, 0), LAMBDA f1 :
  and_then(CdrReadOctets(b, f1.pos), LAMBDA f2 :
  and_then(CdrReadU32(b, f2.pos), LAMBDA f3 :
  and_then(CdrReadOctets(b, f3.pos), LAMBDA f4 :
  and_then(CdrReadU32(b, f4.pos), LAMBDA f5 :
  and_then(CdrReadOctets(b, f5.pos), LAMBDA f6 :
    Ok(SerializableKeyMaterial(f1.val, f2.val, f3.val, f4.val, f5.val,
                               f6.val))))))))

(***************************************************************************)
(* KeyMaterial_AES_GCM_GMAC (key_material.rs).                             *)
(***************************************************************************)
KeyMaterial(kind, salt, sid, skey, rid, rkey) ==
  [transformation_kind |-> kind, master_salt |-> salt, sender_key_id |-> sid,
   master_sender_key |-> skey, receiver_specific_key_id |-> rid,
   master_receiver_specific_key |-> rkey]

\* a mutant: the receiver-specific fields take the sender's values
KeyMaterial_try_from_Serializable_sender_twice(s) ==
  and_then(BuiltinCryptoTransformationKind_try_from(s.transformation_kind),
    LAMBDA transformation_kind :
  and_then(KeyLength_try_from(transformation_kind), LAMBDA key_len :
  and_then(BuiltinKey_from_bytes(key_len, s.master_sender_key),
    LAMBDA sender :
    Ok(KeyMaterial(transformation_kind, s.master_salt, s.sender_key_id,
                   sender, s.sender_key_id, sender)))))

\* TryFrom<Serializable_KeyMaterial_AES_GCM_GMAC> for KeyMaterial_AES_GCM_GMAC
KeyMaterial_try_from_Serializable(s) ==
  and_then(BuiltinCryptoTransformationKind_try_from(s.transformation_kind),
    LAMBDA transformation_kind :
  and_then(KeyLength_try_from(transformation_kind), LAMBDA key_len :
  and_then(BuiltinKey_from_bytes(key_len, s.master_sender_key),
    LAMBDA sender :
  and_then(BuiltinKey_from_bytes(key_len, s.master_receiver_specific_key),
    LAMBDA receiver :
    Ok(KeyMaterial(transformation_kind, s.master_salt, s.sender_key_id,
                   sender, s.receiver_specific_key_id, receiver))))))

\* From<KeyMaterial_AES_GCM_GMAC> for Serializable_KeyMaterial_AES_GCM_GMAC
Serializable_from_KeyMaterial(m) ==
  SerializableKeyMaterial(CryptoTransformKind_from(m.transformation_kind),
                          m.master_salt, m.sender_key_id,
                          BuiltinKey_as_bytes(m.master_sender_key),
                          m.receiver_specific_key_id,
                          BuiltinKey_as_bytes(m.master_receiver_specific_key))

\* decode_wire: TryFrom<Bytes> for KeyMaterial_AES_GCM_GMAC
KeyMaterial_try_from_Bytes(value) ==
  and_then(Serializable_deserialize(value), KeyMaterial_try_from_Serializable)

\* encode_wire: TryFrom<KeyMaterial_AES_GCM_GMAC> for Bytes
Bytes_try_from_KeyMaterial(key_material) ==
  Ok(Serializable_to_bytes(Serializable_from_KeyMaterial(key_material)))

\* a mutant: the master_salt comparison is left out
receiver_key_material_for_no_salt(self, common) ==
  IF self.sender_key_id # common.sender_key_id
  THEN Err("KeyMaterialMismatch", "sender_key_id")
  ELSE IF self.transformation_kind # common.transformation_kind
  THEN Err("KeyMaterialMismatch", "transformation_kind")
  ELSE IF self.master_sender_key # common.master_sender_key
  THEN Err("KeyMaterialMismatch", "master_sender_key")
  ELSE Ok([receiver_specific_key_id |-> self.receiver_specific_key_id,
           master_receiver_specific_key |-> self.master_receiver_specific_key])

\* KeyMaterial_AES_GCM_GMAC::receiver_key_material_for
receiver_key_material_for(self, common) ==
  IF self.sender_key_id # common.sender_key_id
  THEN Err("KeyMaterialMismatch", "sender_key_id")
  ELSE IF self.transformation_kind # common.transformation_kind
  THEN Err("KeyMaterialMismatch", "transformation_kind")
  ELSE IF self.master_sender_key # common.master_sender_key
  THEN Err("KeyMaterialMismatch", "master_sender_key")
  ELSE IF self.master_salt # common.master_salt
  THEN Err("KeyMaterialMismatch", "master_salt")
  ELSE Ok([receiver_specific_key_id |-> self.receiver_specific_key_id,
           master_receiver_specific_key |-> self.master_receiver_specific_key])

(***************************************************************************)
(* KeyMaterial_AES_GCM_GMAC_seq.                                           *)
(***************************************************************************)
One(key_material) == [variant |-> "One", key_material |-> key_material]

Two(key_material, payload_key_material) ==
  [variant |-> "Two", key_material |-> key_material,
   payload_key_material |-> payload_key_material]

\* KeyMaterial_AES_GCM_GMAC_seq::key_material
key_material(self) == self.key_material

\* KeyMaterial_AES_GCM_GMAC_seq::payload_key_material
payload_key_material(self) ==
  IF self.variant = "One" THEN self.key_material
  ELSE self.payload_key_material

\* KeyMaterial_AES_GCM_GMAC_seq::modify_key_material
modify_key_material(self, f(_)) ==
  IF self.variant = "One" THEN One(f(self.key_material))
  ELSE Two(f(self.key_material), self.payload_key_material)

\* a variant that puts the receiver-specific key into the payload key
\* material as well
add_master_receiver_specific_key_in_both(self, receiver_specific_key_id, master_receiver_specific_key) ==
  IF self.variant = "One"
  THEN One(KeyMaterial(self.key_material.transformation_kind,
                       self.key_material.master_salt,
                       self.key_material.sender_key_id,
                       self.key_material.master_sender_key,
                       receiver_specific_key_id, master_receiver_specific_key))
  ELSE Two(KeyMaterial(self.key_material.transformation_kind,
                       self.key_material.master_salt,
                       self.key_material.sender_key_id,
                       self.key_material.master_sender_key,
                       receiver_specific_key_id, master_receiver_specific_key),
           KeyMaterial(self.payload_key_material.transformation_kind,
                       self.payload_key_material.master_salt,
                       self.payload_key_material.sender_key_id,
                       self.payload_key_material.master_sender_key,
                       receiver_specific_key_id, master_receiver_specific_key))

\* KeyMaterial_AES_GCM_GMAC_seq::add_master_receiver_specific_key
add_master_receiver_specific_key(self, receiver_specific_key_id, master_receiver_specific_key) ==
  modify_key_material(self,
    LAMBDA m : KeyMaterial(m.transformation_kind, m.master_salt,
                           m.sender_key_id, m.master_sender_key,
                           receiver_specific_key_id,
                           master_receiver_specific_key))

\* a mutant: a list of two keeps only its first element
KeyMaterial_seq_try_from_Vec_drops_payload(value) ==
  IF Len(value) = 1 THEN Ok(One(value[1]))
  ELSE IF Len(value) = 2 THEN Ok(One(value[1]))
  ELSE IF Len(value) = 0
  THEN Ok(One(KeyMaterial("NONE", <<>>, 0, BuiltinKey_ZERO, 0,
                          BuiltinKey_ZERO)))
  ELSE Err("InvalidCardinality", Len(value))

\* from_wire_list: TryFrom<Vec<KeyMaterial_AES_GCM_GMAC>> for
\* KeyMaterial_AES_GCM_GMAC_seq
KeyMaterial_seq_try_from_Vec(value) ==
  IF Len(value) = 1 THEN Ok(One(value[1]))
  ELSE IF Len(value) = 2 THEN Ok(Two(value[1], value[2]))
  ELSE IF Len(value) = 0
  THEN Ok(One(KeyMaterial("NONE", <<>>, 0, BuiltinKey_ZERO, 0,
                          BuiltinKey_ZERO)))
  ELSE Err("InvalidCardinality", Len(value))

\* a variant that writes the payload key material first
Vec_from_KeyMaterial_seq_payload_first(key_materials) ==
  IF key_materials.variant = "One" THEN <<key_materials.key_material>>
  ELSE <<key_materials.payload_key_material, key_materials.key_material>>

\* to_wire_list: From<KeyMaterial_AES_GCM_GMAC_seq> for
\* Vec<KeyMaterial_AES_GCM_GMAC>
Vec_from_KeyMaterial_seq(key_materials) ==
  IF key_materials.variant = "One" THEN <<key_materials.key_material>>
  ELSE <<key_materials.key_material, key_materials.payload_key_material>>

(***************************************************************************)
(* builtin_types.rs: the token adapter and its own key material codec,     *)
(* whose keys are plain byte vectors.                                      *)
(***************************************************************************)
CRYPTO_TOKEN_CLASS_ID == "DDS:Crypto:AES_GCM_GMAC"

CRYPTO_TOKEN_KEYMAT_NAME == "dds.cryp.keymat"

BinaryProperty(name, value) ==
  [name |-> name, value |-> value, propagate |-> TRUE]

CryptoToken(class_id, properties, binary_properties) ==
  [data_holder |-> [class_id |-> class_id, properties |-> properties,
                    binary_properties |-> binary_properties]]

\* TryFrom<Bytes> for KeyMaterial_AES_GCM_GMAC of builtin_types.rs
BuiltinTypes_KeyMaterial_try_from_Bytes(value) ==
  and_then(Serializable_deserialize(value), LAMBDA s :
    map(BuiltinCryptoTransformationKind_try_from(s.transformation_kind),
        LAMBDA transformation_kind :
          KeyMaterial(transformation_kind, s.master_salt, s.sender_key_id,
                      s.master_sender_key, s.receiver_specific_key_id,
                      s.master_receiver_specific_key)))

\* TryFrom<KeyMaterial_AES_GCM_GMAC> for Bytes of builtin_types.rs
BuiltinTypes_Bytes_try_from_KeyMaterial(m) ==
  Ok(Serializable_to_bytes(
       SerializableKeyMaterial(CryptoTransformKind_from(m.transformation_kind),
                               m.master_salt, m.sender_key_id,
                               m.master_sender_key, m.receiver_specific_key_id,
                               m.master_receiver_specific_key)))

\* a mutant: the first of several binary properties is taken
BuiltinCryptoToken_try_from_first_of_many(value) ==
  LET dh == value.data_holder
  IN IF dh.class_id = CRYPTO_TOKEN_CLASS_ID /\ dh.properties = <<>>
        /\ Len(dh.binary_properties) >= 1
     THEN map(BuiltinTypes_KeyMaterial_try_from_Bytes(
                dh.binary_properties[1].value),
              LAMBDA km : [key_material |-> km])
     ELSE IF dh.class_id = CRYPTO_TOKEN_CLASS_ID /\ dh.properties = <<>>
     THEN Err("WrongBinaryPropertyCount", Len(dh.binary_properties))
     ELSE IF dh.class_id = CRYPTO_TOKEN_CLASS_ID
     THEN Err("UnexpectedProperties", Len(dh.properties))
     ELSE Err("WrongClassId", dh.class_id)

\* TryFrom<CryptoToken> for BuiltinCryptoToken: the arms of the match in
\* their order
BuiltinCryptoToken_try_from(value) ==
  LET dh == value.data_holder
  IN IF dh.class_id = CRYPTO_TOKEN_CLASS_ID /\ dh.properties = <<>>
        /\ Len(dh.binary_properties) = 1
     THEN map(BuiltinTypes_KeyMaterial_try_from_Bytes(
                dh.binary_properties[1].value),
              LAMBDA km : [key_material |-> km])
     ELSE IF dh.class_id = CRYPTO_TOKEN_CLASS_ID /\ dh.properties = <<>>
     THEN Err("WrongBinaryPropertyCount", Len(dh.binary_properties))
     ELSE IF dh.class_id = CRYPTO_TOKEN_CLASS_ID
     THEN Err("UnexpectedProperties", Len(dh.properties))
     ELSE Err("WrongClassId", dh.class_id)

\* a mutant: the binary property is named after the class id
CryptoToken_try_from_BuiltinCryptoToken_misnamed(value) ==
  map(BuiltinTypes_Bytes_try_from_KeyMaterial(value.key_material),
      LAMBDA bytes :
        CryptoToken(CRYPTO_TOKEN_CLASS_ID, <<>>,
                    <<BinaryProperty(CRYPTO_TOKEN_CLASS_ID, bytes)>>))

\* TryFrom<BuiltinCryptoToken> for CryptoToken
CryptoToken_try_from_BuiltinCryptoToken(value) ==
  map(BuiltinTypes_Bytes_try_from_KeyMaterial(value.key_material),
      LAMBDA bytes :
        CryptoToken(CRYPTO_TOKEN_CLASS_ID, <<>>,
                    <<BinaryProperty(CRYPTO_TOKEN_KEYMAT_NAME, bytes)>>))

\* From<KeyMaterial_AES_GCM_GMAC> for BuiltinCryptoToken
BuiltinCryptoToken_from(m) ==
  [key_material |->
     KeyMaterial(m.transformation_kind, m.master_salt, m.sender_key_id,
                 BuiltinKey_as_bytes(m.master_sender_key),
                 m.receiver_specific_key_id,
                 BuiltinKey_as_bytes(m.master_receiver_specific_key))]

\* From<BuiltinCryptoToken> for KeyMaterial_AES_GCM_GMAC
KeyMaterial_from_BuiltinCryptoToken(t) == t.key_material

\* token_to_key_material: TryFrom<CryptoToken> for KeyMaterial_AES_GCM_GMAC
KeyMaterial_try_from_CryptoToken(token) ==
  map(BuiltinCryptoToken_try_from(token), KeyMaterial_from_BuiltinCryptoToken)

\* key_material_to_token: TryFrom<KeyMaterial_AES_GCM_GMAC> for CryptoToken
CryptoToken_try_from_KeyMaterial(m) ==
  CryptoToken_try_from_BuiltinCryptoToken(BuiltinCryptoToken_from(m))

\* tokens.iter().map(KeyMaterial_AES_GCM_GMAC::try_from).collect() into a
\* Result: the tokens are converted in order up to the first error, which
\* is the result; with no error the result is the converted list
RECURSIVE collect_key_materials(_)
collect_key_materials(tokens) ==
  IF tokens = <<>> THEN Ok(<<>>)
  ELSE and_then(KeyMaterial_try_from_CryptoToken(Head(tokens)), LAMBDA m :
         map(collect_key_materials(Tail(tokens)), LAMBDA ms : <<m>> \o ms))

\* a variant that looks at the number of tokens before converting them
KeyMaterial_seq_try_from_Vec_CryptoToken_counts_first(tokens) ==
  IF Len(tokens) >= 3 THEN Err("InvalidCardinality", Len(tokens))
  ELSE and_then(collect_key_materials(tokens), KeyMaterial_seq_try_from_Vec)

\* TryFrom<Vec<CryptoToken>> for KeyMaterial_AES_GCM_GMAC_seq
KeyMaterial_seq_try_from_Vec_CryptoToken(tokens) ==
  and_then(collect_key_materials(tokens), KeyMaterial_seq_try_from_Vec)

(***************************************************************************)
(* Header parsing.                                                         *)
(***************************************************************************)
CryptoHeader(transformation_kind, transformation_key_id, extra) ==
  [transformation_id |-> [transformation_kind |-> transformation_kind,
                          transformation_key_id |-> transformation_key_id],
   plugin_crypto_header_extra |-> [data |-> extra]]

\* TryFrom<CryptoTransformIdentifier> for BuiltinCryptoTransformIdentifier
BuiltinCryptoTransformIdentifier_try_from(value) ==
  map(BuiltinCryptoTransformationKind_try_from(value.transformation_kind),
      LAMBDA transformation_kind :
        [transformation_kind |-> transformation_kind,
         transformation_key_id |-> value.transformation_key_id])

\* parse_header: TryFrom<CryptoHeader> for BuiltinCryptoHeader.  The three
\* components of the matched tuple are evaluated first: both slices index
\* from or up to 4 and panic on a shorter buffer.
BuiltinCryptoHeader_try_from(value) ==
  LET crypto_header_extra == value.plugin_crypto_header_extra.data
      n == Len(crypto_header_extra)
  IN IF n < 4 THEN Panic("range end index 4 out of range for slice")
     ELSE and_then(
            BuiltinCryptoTransformIdentifier_try_from(value.transformation_id),
            LAMBDA transform_identifier :
              IF n - 4 = 8
              THEN Ok([transform_identifier |-> transform_identifier,
                       session_id |-> SubSeq(crypto_header_extra, 1, 4),
                       initialization_vector_suffix |->
                         SubSeq(crypto_header_extra, 5, n)])
              ELSE Err("MalformedHeaderExtra", n))

(***************************************************************************)
(* Inputs of the caller.                                                   *)
(***************************************************************************)
\* sequence<octet, 32>: the bound the wire format puts on master_salt
MaxSaltOnWire == 32

KeyIds == {0, 16909060}

Salt(n) == Ramp(n, 0)

ValidSaltLens == {0, 1, 3, 4, 31, MaxSaltOnWire}

OversizeSaltLens == (MaxSaltOnWire + 1)..(MaxSaltOnWire + MaxOversize)

\* the keys of n bytes the caller uses: all-zero, and a non-zero pattern
KeysOfLen(n) == {Fill(n, 0), Ramp(n, 170)}

\* every BuiltinKey the caller can hold
BuiltinKeys == KeysOfLen(0) \cup KeysOfLen(16) \cup KeysOfLen(32)

\* key materials whose keys have the length their kind requires
KeyMaterialsOver(saltLens) ==
  UNION { { KeyMaterial(k, Salt(n), sid, skey, rid, rkey) :
              n \in saltLens, sid \in KeyIds, rid \in KeyIds,
              skey \in KeysOfLen(KeyLength_try_from(k).val),
              rkey \in KeysOfLen(KeyLength_try_from(k).val) } :
          k \in BuiltinCryptoTransformationKind }

ValidKeyMaterials == KeyMaterialsOver(ValidSaltLens)

\* the key material from_wire_list makes of the empty list
DegenerateKeyMaterial ==
  KeyMaterial("NONE", <<>>, 0, BuiltinKey_ZERO, 0, BuiltinKey_ZERO)

\* what encode_wire and key_material_to_token are given: valid key
\* materials, ones with an oversize salt, and the degenerate one
EncodeInputs ==
  ValidKeyMaterials
    \cup { KeyMaterial("AES128_GCM", Salt(n), 0, Fill(16, 0), 0, Ramp(16, 170)) :
             n \in OversizeSaltLens }
    \cup {DegenerateKeyMaterial}

\* the key materials receiver_key_material_for is given
MatchInputs == KeyMaterialsOver({0, 1})

CodeBytes == (0..MaxKindByte) \cup {255}

CryptoTransformKinds ==
  { <<a, b, c, d>> : a \in CodeBytes, b \in CodeBytes, c \in CodeBytes,
                     d \in CodeBytes }

\* wire structures as a peer may send them: any code, any lengths
WireStructs ==
  { SerializableKeyMaterial(code, Salt(n), 16909060, Ramp(ls, 170), 7,
                            Fill(lr, 0)) :
      code \in { <<0, 0, 0, d>> : d \in 0..5 } \cup { <<1, 0, 0, 0>> },
      n \in {0, 1, MaxSaltOnWire} \cup OversizeSaltLens,
      ls \in {0, 15, 16, 32}, lr \in {0, 16, 17, 32} }

\* their encodings, whole, cut short and with bytes after the end
WireInputs ==
  LET whole == { Serializable_to_bytes(s) : s \in WireStructs }
  IN whole
       \cup { SubSeq(b, 1, Len(b) - 1) : b \in whole }
       \cup { SubSeq(b, 1, 6) : b \in whole }
       \cup { b \o <<9, 9>> : b \in whole }
       \cup { <<>>, <<0, 0, 0>> }

\* the key materials lists are made of
ListElems ==
  { KeyMaterial("AES128_GCM", Salt(1), 16909060, Ramp(16, 170), 0, Fill(16, 0)),
    KeyMaterial("AES128_GCM", Salt(1), 16909060, Ramp(16, 170), 16909060,
                Ramp(16, 170)),
    KeyMaterial("AES256_GMAC", Salt(4), 0, Fill(32, 0), 0, Ramp(32, 170)),
    KeyMaterial("NONE", <<>>, 0, <<>>, 0, <<>>) }

RECURSIVE SeqsOfLen(_, _)
SeqsOfLen(S, n) ==
  IF n = 0 THEN { <<>> }
  ELSE { Append(s, x) : s \in SeqsOfLen(S, n - 1), x \in S }

SeqsUpTo(S, n) == UNION { SeqsOfLen(S, k) : k \in 0..n }

\* binary property values: encodings of key materials, and a broken one
PropertyValues ==
  { Serializable_to_bytes(Serializable_from_KeyMaterial(m)) :
      m \in { KeyMaterial("AES256_GCM", Salt(MaxSaltOnWire), 7, Ramp(32, 170), 0,
                          Fill(32, 0)),
              KeyMaterial("NONE", <<>>, 0, <<>>, 0, <<>>) } }
    \cup { Serializable_to_bytes(
             SerializableKeyMaterial(<<0, 0, 0, 2>>, Salt(1), 1, Fill(5, 1), 2,
                                     Fill(16, 0))),
           <<0, 0, 0, 9>> }

BinaryProperties ==
  { BinaryProperty(n, v) :
      n \in {CRYPTO_TOKEN_KEYMAT_NAME, "dds.cryp.other"}, v \in PropertyValues }

Properties == { <<>>, <<[name |-> "p", value |-> "v", propagate |-> TRUE]>> }

ClassIds == {CRYPTO_TOKEN_CLASS_ID, "DDS:Crypto:Other"}

CryptoTokens ==
  { CryptoToken(c, ps, bps) :
      c \in ClassIds, ps \in Properties,
      bps \in SeqsUpTo(BinaryProperties, MaxBinaryProps) }

\* the tokens lists are made of: two that decode to different key
\* materials and three that fail, each with its own error
TokenListElems ==
  { CryptoToken(CRYPTO_TOKEN_CLASS_ID, <<>>,
      <<BinaryProperty(CRYPTO_TOKEN_KEYMAT_NAME,
          Serializable_to_bytes(Serializable_from_KeyMaterial(
            KeyMaterial("AES128_GCM", Salt(1), 7, Ramp(16, 170), 0,
                        Fill(16, 0)))))>>),
    CryptoToken(CRYPTO_TOKEN_CLASS_ID, <<>>,
      <<BinaryProperty(CRYPTO_TOKEN_KEYMAT_NAME,
          Serializable_to_bytes(Serializable_from_KeyMaterial(
            KeyMaterial("NONE", <<>>, 0, <<>>, 0, <<>>))))>>),
    CryptoToken("DDS:Crypto:Other", <<>>, <<>>),
    CryptoToken(CRYPTO_TOKEN_CLASS_ID, <<>>, <<>>),
    CryptoToken(CRYPTO_TOKEN_CLASS_ID, <<>>,
      <<BinaryProperty(CRYPTO_TOKEN_KEYMAT_NAME, <<0, 0, 0, 9>>)>>) }

CryptoHeaders ==
  { CryptoHeader(code, 7, Ramp(n, 16)) :
      code \in { <<0, 0, 0, 2>>, <<0, 0, 0, 4>>, <<0, 0, 0, 5>>, <<2, 0, 0, 0>> },
      n \in 0..MaxExtraLen }

\* parse_content: TryFrom<CryptoContent> for BuiltinCryptoContent.  The body
\* is todo!(), which panics whatever the value is.
BuiltinCryptoContent_try_from(value) == Panic("not yet implemented")

\* parse_footer: TryFrom<CryptoFooter> for BuiltinCryptoFooter.  The body is
\* todo!(), which panics whatever the value is.
BuiltinCryptoFooter_try_from(value) == Panic("not yet implemented")

CryptoContents == { [data |-> Ramp(n, 1)] : n \in 0..MaxContentLen }

CryptoFooters == { [data |-> Ramp(n, 1)] : n \in 0..MaxFooterLen }

(***************************************************************************)
(* The caller.                                                             *)
(***************************************************************************)
Init ==
  /\ op = "idle"
  /\ inp = NoValue
  /\ out = NoValue
  /\ hist = <<>>

\* a fresh call (the caller is idle): operation o on argument i, result r
Call(o, i, r) ==
  /\ op' = o
  /\ inp' = i
  /\ out' = r
  /\ hist' = <<>>

\* a chained call: operation o on the previous call's Ok value
Chain(from, o, r) ==
  /\ op = from
  /\ out.tag = "Ok"
  /\ op' = o
  /\ inp' = out.val
  /\ out' = r
  /\ hist' = Append(hist, inp)

\* the caller takes the result (or the error) and is ready for the next call
Return ==
  /\ op # "idle"
  /\ out.tag # "Panic"
  /\ op' = "idle"
  /\ inp' = NoValue
  /\ out' = NoValue
  /\ hist' = <<>>

ReceiverKeyMaterialFor ==
  /\ op = "idle"
  /\ \E k \in MatchInputs, c \in MatchInputs :
       Call("receiver_key_material_for", [self |-> k, common |-> c],
            receiver_key_material_for(k, c))

EncodeWire ==
  /\ op = "idle"
  /\ \E m \in EncodeInputs : Call("encode_wire", m, Bytes_try_from_KeyMaterial(m))

DecodeWire ==
  /\ op = "idle"
  /\ \E b \in WireInputs : Call("decode_wire", b, KeyMaterial_try_from_Bytes(b))

\* decode what encode_wire produced
DecodeEncoded ==
  /\ hist = <<>>
  /\ Chain("encode_wire", "decode_wire", KeyMaterial_try_from_Bytes(out.val))

\* encode again what decode_wire produced from an encoding
ReEncode ==
  /\ Len(hist) = 1
  /\ Chain("decode_wire", "encode_wire", Bytes_try_from_KeyMaterial(out.val))

KindDecode ==
  /\ op = "idle"
  /\ \E v \in CryptoTransformKinds :
       Call("kind_decode", v, BuiltinCryptoTransformationKind_try_from(v))

KindEncode ==
  /\ op = "idle"
  /\ \E k \in BuiltinCryptoTransformationKind :
       Call("kind_encode", k, Ok(CryptoTransformKind_from(k)))

\* decode the code kind_encode produced
KindDecodeEncoded ==
  /\ hist = <<>>
  /\ Chain("kind_encode", "kind_decode",
           BuiltinCryptoTransformationKind_try_from(out.val))

\* encode the kind kind_decode produced
KindEncodeDecoded ==
  /\ hist = <<>>
  /\ Chain("kind_decode", "kind_encode", Ok(CryptoTransformKind_from(out.val)))

KeyMaterialToToken ==
  /\ op = "idle"
  /\ \E m \in EncodeInputs :
       Call("key_material_to_token", m, CryptoToken_try_from_KeyMaterial(m))

TokenToKeyMaterial ==
  /\ op = "idle"
  /\ \E t \in CryptoTokens :
       Call("token_to_key_material", t, KeyMaterial_try_from_CryptoToken(t))

\* decode the token key_material_to_token produced
TokenDecodeEncoded ==
  /\ hist = <<>>
  /\ Chain("key_material_to_token", "token_to_key_material",
           KeyMaterial_try_from_CryptoToken(out.val))

FromWireList ==
  /\ op = "idle"
  /\ \E l \in SeqsUpTo(ListElems, MaxListLen) :
       Call("from_wire_list", l, KeyMaterial_seq_try_from_Vec(l))

\* add a receiver-specific key to the sequence from_wire_list produced
AddMasterReceiverSpecificKey ==
  /\ op = "from_wire_list"
  /\ out.tag = "Ok"
  /\ \E id \in KeyIds, key \in BuiltinKeys :
       /\ op' = "add_master_receiver_specific_key"
       /\ inp' = [self |-> out.val, receiver_specific_key_id |-> id,
                  master_receiver_specific_key |-> key]
       /\ out' = Ok(add_master_receiver_specific_key(out.val, id, key))
       /\ hist' = Append(hist, inp)

\* the list of the sequence from_wire_list produced, or of the one
\* add_master_receiver_specific_key produced
ToWireList ==
  /\ op \in {"from_wire_list", "add_master_receiver_specific_key"}
  /\ Len(hist) <= 1
  /\ Chain(op, "to_wire_list", Ok(Vec_from_KeyMaterial_seq(out.val)))

\* the sequence of the list to_wire_list produced
FromWireListAgain ==
  Chain("to_wire_list", "from_wire_list", KeyMaterial_seq_try_from_Vec(out.val))

ParseHeader ==
  /\ op = "idle"
  /\ \E h \in CryptoHeaders :
       Call("parse_header", h, BuiltinCryptoHeader_try_from(h))

TokensToSequence ==
  /\ op = "idle"
  /\ \E tokens \in SeqsUpTo(TokenListElems, MaxListLen) :
       Call("tokens_to_sequence", tokens,
            KeyMaterial_seq_try_from_Vec_CryptoToken(tokens))

ParseContent ==
  /\ op = "idle"
  /\ \E c \in CryptoContents :
       Call("parse_content", c, BuiltinCryptoContent_try_from(c))

ParseFooter ==
  /\ op = "idle"
  /\ \E f \in CryptoFooters :
       Call("parse_footer", f, BuiltinCryptoFooter_try_from(f))

Next ==
  \/ ReceiverKeyMaterialFor
  \/ EncodeWire
  \/ DecodeWire
  \/ DecodeEncoded
  \/ ReEncode
  \/ KindDecode
  \/ KindEncode
  \/ KindDecodeEncoded
  \/ KindEncodeDecoded
  \/ KeyMaterialToToken
  \/ TokenToKeyMaterial
  \/ TokenDecodeEncoded
  \/ FromWireList
  \/ AddMasterReceiverSpecificKey
  \/ ToWireList
  \/ FromWireListAgain
  \/ TokensToSequence
  \/ ParseHeader
  \/ ParseContent
  \/ ParseFooter
  \/ Return

Spec == Init /\ [][Next]_vars

(***************************************************************************)
(* Properties.                                                             *)
(***************************************************************************)
\* the key length a kind requires: 0, 16 or 32
required_length(kind) == KeyLength_try_from(kind).val

\* both keys of m have the length m's kind requires
KeyLengthsOk(m) ==
  /\ Len(m.master_sender_key) = required_length(m.transformation_kind)
  /\ Len(m.master_receiver_specific_key) = required_length(m.transformation_kind)

\* a valid key material: keys of the required length, salt of at most 32 bytes
ValidKeyMaterial(m) ==
  /\ m.transformation_kind \in BuiltinCryptoTransformationKind
  /\ KeyLengthsOk(m)
  /\ Len(m.master_salt) <= MaxSaltOnWire

AllZero(bytes) == \A i \in DOMAIN bytes : bytes[i] = 0

\* k and c agree on the four common fields
CommonFieldsMatch(k, c) ==
  /\ k.sender_key_id = c.sender_key_id
  /\ k.transformation_kind = c.transformation_kind
  /\ k.master_sender_key = c.master_sender_key
  /\ k.master_salt = c.master_salt

\* C1: receiver_key_material_for(k, c) is Ok exactly when k and c agree on
\* sender_key_id, transformation_kind, master_sender_key and master_salt; the
\* Ok value is k's receiver-specific id and key, and any disagreement is a
\* KeyMaterialMismatch error, whatever c's receiver-specific fields are.
C1_ReceiverKeyMaterialFor ==
  op = "receiver_key_material_for" =>
    /\ (out.tag = "Ok") <=> CommonFieldsMatch(inp.self, inp.common)
    /\ out.tag = "Ok" =>
         out.val = [receiver_specific_key_id |->
                      inp.self.receiver_specific_key_id,
                    master_receiver_specific_key |->
                      inp.self.master_receiver_specific_key]
    /\ out.tag # "Ok" => out.tag = "Err" /\ out.err = "KeyMaterialMismatch"

\* C1's case: a match is accepted although c's receiver-specific key differs
C1_Witness ==
  /\ op = "receiver_key_material_for"
  /\ out.tag = "Ok"
  /\ inp.self.transformation_kind = "AES256_GCM"
  /\ inp.self.master_receiver_specific_key
       # inp.common.master_receiver_specific_key
  /\ inp.self.receiver_specific_key_id # inp.common.receiver_specific_key_id

\* the key materials of a sequence
KeyMaterialsOfSeq(s) == {key_material(s), payload_key_material(s)}

\* C2: every key material an operation returns (decode_wire,
\* token_to_key_material, from_wire_list, add_master_receiver_specific_key)
\* has both keys of exactly the length its kind requires (0, 16 or 32), and
\* building a key of another length fails with KeyLengthMismatch.
C2_KeyLengthInvariant ==
  /\ op \in {"decode_wire", "token_to_key_material"} /\ out.tag = "Ok"
       => KeyLengthsOk(out.val)
  /\ op = "decode_wire" /\ out.tag = "Err" /\ out.err = "KeyLengthMismatch"
       => \E s \in {Serializable_deserialize(inp).val} :
            \E key \in {s.master_sender_key, s.master_receiver_specific_key} :
              Len(key) # required_length(
                BuiltinCryptoTransformationKind_try_from(
                  s.transformation_kind).val)
  /\ op = "decode_wire" /\ out.tag = "Err" /\ out.err # "KeyLengthMismatch"
       => \/ Serializable_deserialize(inp).tag = "Err"
          \/ Serializable_deserialize(inp).val.transformation_kind
                \notin { <<0, 0, 0, d>> : d \in 0..4 }
  /\ op \in {"from_wire_list", "add_master_receiver_specific_key"}
       /\ out.tag = "Ok"
       => \A m \in KeyMaterialsOfSeq(out.val) : KeyLengthsOk(m)

\* C3: for every valid key material m, encode_wire(m) succeeds,
\* decode_wire of the bytes succeeds and equals m, and encoding the decoded
\* value again gives the same bytes.
C3_WireRoundTrip ==
  /\ op = "encode_wire" /\ ValidKeyMaterial(inp) => out.tag = "Ok"
  /\ op = "decode_wire" /\ Len(hist) = 1 /\ ValidKeyMaterial(hist[1])
       => out = Ok(hist[1])
  /\ op = "encode_wire" /\ Len(hist) = 2 /\ ValidKeyMaterial(hist[1])
       => out = Ok(hist[2])

\* C3's case: a 256-bit key material with a full salt and one with a salt
\* that needs padding have gone through encode, decode and encode
C3_Witness ==
  /\ op = "encode_wire"
  /\ Len(hist) = 2
  /\ out.tag = "Ok"
  /\ hist[1].transformation_kind \in {"AES256_GCM", "AES128_GMAC"}
  /\ Len(hist[1].master_salt) \in {3, MaxSaltOnWire}
  /\ hist[1].sender_key_id # 0

\* C4: token_to_key_material accepts a token only if its class id is
\* "DDS:Crypto:AES_GCM_GMAC", it has no properties and exactly one binary
\* property, named "dds.cryp.keymat".
C4_TokenAcceptedOnlyIfNamed ==
  op = "token_to_key_material" /\ out.tag = "Ok" =>
    /\ inp.data_holder.class_id = CRYPTO_TOKEN_CLASS_ID
    /\ inp.data_holder.properties = <<>>
    /\ Len(inp.data_holder.binary_properties) = 1
    /\ inp.data_holder.binary_properties[1].name = CRYPTO_TOKEN_KEYMAT_NAME

\* C5: for every valid key material m, key_material_to_token(m) is a token
\* of class "DDS:Crypto:AES_GCM_GMAC" with no properties and one binary
\* property named "dds.cryp.keymat", and token_to_key_material of it is m.
C5_TokenRoundTrip ==
  /\ op = "key_material_to_token" /\ ValidKeyMaterial(inp) =>
       /\ out.tag = "Ok"
       /\ out.val.data_holder.class_id = "DDS:Crypto:AES_GCM_GMAC"
       /\ out.val.data_holder.properties = <<>>
       /\ Len(out.val.data_holder.binary_properties) = 1
       /\ out.val.data_holder.binary_properties[1].name = "dds.cryp.keymat"
  /\ op = "token_to_key_material" /\ Len(hist) = 1 /\ ValidKeyMaterial(hist[1])
       => out = Ok(hist[1])

\* C5's case: a valid key material has come back from its token
C5_Witness ==
  /\ op = "token_to_key_material"
  /\ Len(hist) = 1
  /\ out.tag = "Ok"
  /\ hist[1].transformation_kind = "AES128_GCM"
  /\ hist[1].master_sender_key # hist[1].master_receiver_specific_key
  /\ Len(hist[1].master_salt) = 1

\* C6: from_wire_list maps the empty list to One(kind NONE, all-zero ids and
\* keys), [a] to One(a), [a, b] to Two(a, b), and fails on 3 or more
\* elements with InvalidCardinality carrying their number.
C6_FromWireList ==
  op = "from_wire_list" =>
    /\ Len(inp) = 0 =>
         /\ out.tag = "Ok"
         /\ out.val.variant = "One"
         /\ out.val.key_material.transformation_kind = "NONE"
         /\ out.val.key_material.sender_key_id = 0
         /\ out.val.key_material.receiver_specific_key_id = 0
         /\ AllZero(out.val.key_material.master_sender_key)
         /\ AllZero(out.val.key_material.master_receiver_specific_key)
    /\ Len(inp) = 1 => out = Ok(One(inp[1]))
    /\ Len(inp) = 2 => out = Ok(Two(inp[1], inp[2]))
    /\ Len(inp) >= 3 => out = Err("InvalidCardinality", Len(inp))

\* C6's case: two different key materials became Two, in their order
C6_Witness ==
  /\ op = "from_wire_list"
  /\ Len(inp) = 2
  /\ inp[1] # inp[2]
  /\ out.tag = "Ok"
  /\ out.val.variant = "Two"

\* C7: parse_header on a header of a valid transform kind returns the session
\* id (bytes 0..3) and the IV suffix (bytes 4..11) of a 12-byte extra field,
\* and for every other length a MalformedHeaderExtra error with the length.
C7_ParseHeader ==
  op = "parse_header"
    /\ BuiltinCryptoTransformationKind_try_from(
         inp.transformation_id.transformation_kind).tag = "Ok"
    => IF Len(inp.plugin_crypto_header_extra.data) = 12
       THEN /\ out.tag = "Ok"
            /\ out.val.session_id
                 = SubSeq(inp.plugin_crypto_header_extra.data, 1, 4)
            /\ out.val.initialization_vector_suffix
                 = SubSeq(inp.plugin_crypto_header_extra.data, 5, 12)
       ELSE out = Err("MalformedHeaderExtra",
                      Len(inp.plugin_crypto_header_extra.data))

\* C8 as stated: a token with 0 or with 2 or more binary properties always
\* yields WrongBinaryPropertyCount, whatever its class id and properties.
C8_AlwaysWrongBinaryPropertyCount ==
  op = "token_to_key_material" /\ Len(inp.data_holder.binary_properties) # 1
    => out.tag = "Err" /\ out.err = "WrongBinaryPropertyCount"

\* C8 as amended: a token with 0 or with 2 or more binary properties is
\* always rejected; with the builtin class id and no properties the error is
\* WrongBinaryPropertyCount, with the builtin class id and properties it is
\* UnexpectedProperties, and with another class id it is WrongClassId.
C8_RejectedByFirstFailingCheck ==
  op = "token_to_key_material" /\ Len(inp.data_holder.binary_properties) # 1
    => /\ out.tag = "Err"
       /\ out.err =
            IF inp.data_holder.class_id # "DDS:Crypto:AES_GCM_GMAC"
            THEN "WrongClassId"
            ELSE IF inp.data_holder.properties # <<>>
            THEN "UnexpectedProperties"
            ELSE "WrongBinaryPropertyCount"

\* C8's case: a token of the builtin class, without properties, with two
\* binary properties, both well named and well formed
C8_Witness ==
  /\ op = "token_to_key_material"
  /\ inp.data_holder.class_id = CRYPTO_TOKEN_CLASS_ID
  /\ inp.data_holder.properties = <<>>
  /\ Len(inp.data_holder.binary_properties) = 2
  /\ \A i \in 1..2 :
       /\ inp.data_holder.binary_properties[i].name = CRYPTO_TOKEN_KEYMAT_NAME
       /\ KeyMaterial_try_from_Bytes(
            inp.data_holder.binary_properties[i].value).tag = "Ok"
  /\ out.tag = "Err"

\* C9: every key material decode_wire returns has a master_salt of at most
\* 32 bytes.
C9_DecodedSaltBounded ==
  op = "decode_wire" /\ out.tag = "Ok" => Len(out.val.master_salt) <= 32

ReservedCodes == { <<0, 0, 0, d>> : d \in 0..4 }

\* C10: the kind codec decodes exactly the codes [0,0,0,0] to [0,0,0,4] and
\* fails with InvalidTransformationKind on any other; decode(encode(k)) = k
\* for every kind and encode(decode(b)) = b for every accepted code.
C10_KindCodec ==
  /\ op = "kind_decode" =>
       /\ (out.tag = "Ok") <=> inp \in ReservedCodes
       /\ out.tag # "Ok" =>
            out.tag = "Err" /\ out.err = "InvalidTransformationKind"
  /\ op = "kind_decode" /\ Len(hist) = 1 => out = Ok(hist[1])
  /\ op = "kind_encode" /\ Len(hist) = 1 => out = Ok(hist[1])

\* C10's case: the code of a 256-bit kind was decoded and encoded again
C10_Witness ==
  /\ op = "kind_encode"
  /\ Len(hist) = 1
  /\ hist[1] = <<0, 0, 0, 3>>
  /\ inp = "AES256_GMAC"

\* C11: to_wire_list gives 1 element for One and 2 for Two, never the empty
\* list, and from_wire_list of that list is the sequence again; the sequence
\* of the empty list is written as one key material of kind NONE.
C11_ToWireListInverse ==
  /\ op = "to_wire_list" =>
        /\ out.tag = "Ok"
        /\ Len(out.val) = (IF inp.variant = "One" THEN 1 ELSE 2)
        /\ Len(out.val) # 0
        /\ out.val[1] = key_material(inp)
        /\ hist[1] = <<>> /\ Len(hist) = 1 =>
              /\ Len(out.val) = 1
              /\ out.val[1].transformation_kind = "NONE"
  /\ op = "from_wire_list" /\ hist # <<>> => out = Ok(hist[Len(hist)])

\* C11's case: a Two sequence with a receiver-specific key added went to a
\* list of two different elements and back
C11_Witness ==
  /\ op = "from_wire_list"
  /\ Len(hist) = 3
  /\ hist[3].variant = "Two"
  /\ inp[1] # inp[2]
  /\ inp[1] # hist[1][1]
  /\ out = Ok(hist[3])

\* C11's degenerate case: the sequence of the empty list went to a list of
\* one element and back
C11_WitnessDegenerate ==
  /\ op = "from_wire_list"
  /\ Len(hist) = 2
  /\ hist[1] = <<>>
  /\ Len(inp) = 1
  /\ out = Ok(hist[2])

\* C12: add_master_receiver_specific_key keeps the variant, keeps the first
\* element's transformation_kind, master_salt, sender_key_id and
\* master_sender_key, gives it the receiver-specific id and key it was
\* called with, and keeps the payload element of a Two sequence, so
\* payload_key_material() of a Two sequence is the same before and after.
C12_AddMasterReceiverSpecificKeyFrame ==
  op = "add_master_receiver_specific_key" =>
    /\ out.tag = "Ok"
    /\ out.val.variant = inp.self.variant
    /\ key_material(out.val).transformation_kind
         = key_material(inp.self).transformation_kind
    /\ key_material(out.val).master_salt = key_material(inp.self).master_salt
    /\ key_material(out.val).sender_key_id
         = key_material(inp.self).sender_key_id
    /\ key_material(out.val).master_sender_key
         = key_material(inp.self).master_sender_key
    /\ key_material(out.val).receiver_specific_key_id
         = inp.receiver_specific_key_id
    /\ key_material(out.val).master_receiver_specific_key
         = inp.master_receiver_specific_key
    /\ inp.self.variant = "Two" =>
         /\ out.val.payload_key_material = inp.self.payload_key_material
         /\ payload_key_material(out.val) = payload_key_material(inp.self)

\* C12's case: a Two sequence got a receiver-specific id and key that
\* neither of its elements had
C12_Witness ==
  /\ op = "add_master_receiver_specific_key"
  /\ inp.self.variant = "Two"
  /\ out.tag = "Ok"
  /\ out.val.variant = "Two"
  /\ key_material(out.val) # key_material(inp.self)
  /\ key_material(inp.self) # payload_key_material(inp.self)
  /\ payload_key_material(inp.self).receiver_specific_key_id
       # inp.receiver_specific_key_id
  /\ payload_key_material(inp.self).master_receiver_specific_key
       # inp.master_receiver_specific_key

\* C13: parse_content and parse_footer return a result on every input and
\* never abort: parse_content returns the content bytes unchanged, and
\* parse_footer returns an error, or a 16-byte common MAC with a list of
\* (key id, 16-byte MAC) pairs.
C13_ParseContentFooterNeverAbort ==
  /\ op = "parse_content" => out = Ok([crypto_content |-> inp.data])
  /\ op = "parse_footer" =>
        /\ out.tag \in {"Ok", "Err"}
        /\ out.tag = "Ok" =>
              /\ Len(out.val.common_mac) = 16
              /\ \A i \in DOMAIN out.val.receiver_specific_macs :
                    Len(out.val.receiver_specific_macs[i].receiver_mac) = 16

\* the result of token_to_key_material on each token of a list
TokenResults(tokens) ==
  [i \in DOMAIN tokens |-> KeyMaterial_try_from_CryptoToken(tokens[i])]

\* the positions of the tokens that fail
Failing(tokens) == { i \in DOMAIN tokens : TokenResults(tokens)[i].tag # "Ok" }

\* C14: converting a list of tokens gives the error of the first token that
\* token_to_key_material fails on, whatever the length of the list; when no
\* token fails it gives from_wire_list of the key materials in list order:
\* the degenerate One for no token, One for 1, Two for 2, and
\* InvalidCardinality for 3 or more.
C14_TokensToSequence ==
  op = "tokens_to_sequence" =>
    LET results == TokenResults(inp)
        failing == Failing(inp)
        n == Len(inp)
    IN IF failing # {}
       THEN out = results[CHOOSE i \in failing : \A j \in failing : i <= j]
       ELSE /\ out = KeyMaterial_seq_try_from_Vec(
                       [i \in 1..n |-> results[i].val])
            /\ n = 0 => /\ out.tag = "Ok"
                        /\ out.val.variant = "One"
                        /\ out.val.key_material.transformation_kind = "NONE"
            /\ n = 1 => out = Ok(One(results[1].val))
            /\ n = 2 => out = Ok(Two(results[1].val, results[2].val))
            /\ n >= 3 => out = Err("InvalidCardinality", n)

\* C14's case: of three tokens the first is good and the other two fail
\* with different errors; the result is the second token's error
C14_Witness ==
  /\ op = "tokens_to_sequence"
  /\ Len(inp) = 3
  /\ Failing(inp) = {2, 3}
  /\ TokenResults(inp)[2] # TokenResults(inp)[3]
  /\ out = TokenResults(inp)[2]

\* C14's other case: two good tokens became Two, in their order
C14_WitnessTwo ==
  /\ op = "tokens_to_sequence"
  /\ Len(inp) = 2
  /\ Failing(inp) = {}
  /\ inp[1] # inp[2]
  /\ out.tag = "Ok"
  /\ out.val.variant = "Two"
  /\ out.val.key_material # out.val.payload_key_material

====
